---- MODULE Spec2Model ----
(***************************************************************************)
(* Model of ConsensusRegisterCollection                                    *)
(* (packages/runtime/consensus-register-collection/src/                    *)
(*  consensusRegisterCollection.ts): one replica of the register           *)
(* collection, its pending-promise queue and its connection state, driven  *)
(* by the calls the runtime makes on it (write, process, onConnect,        *)
(* onDisconnect, snapshot/load), plus a second replica that observes the   *)
(* same sequenced stream; and of FlowDocument (the flow-document           *)
(* component): insertTags, remove and the local references of a document   *)
(* held in a shared string.                                                *)
(***************************************************************************)
EXTENDS Integers, Sequences, FiniteSets, TLC

\* ---------------------------------------------------------------- bounds
MaxSeq == 3        \* highest global sequence number the sequencer hands out
MaxWrites == 2     \* highest number of local write() submissions

\* ---------------------------------------------------------------- values
Keys == {"k1", "k2"}
PlainValues == {"a"}
SharedIds == {"s1"}

\* JavaScript values that can sit in IRegisterValue.value
Undefined == [kind |-> "undefined", v |-> ""]
Str(s) == [kind |-> "string", v |-> s]
Channel(id) == [kind |-> "channel", v |-> id]

\* what a caller can hand to write(): a plain value or a live shared object
WriteValues == {Str(s) : s \in PlainValues} \cup {Channel(id) : id \in SharedIds}

\* ValueType[ValueType.Plain], ValueType[ValueType.Shared]
Plain == "Plain"
Shared == "Shared"

\* the IRegisterValue payloads a sequenced write can carry on the wire
OpValues ==
    {[type |-> Plain, value |-> Str(s)] : s \in PlainValues}
        \cup {[type |-> Shared, value |-> Str(id)] : id \in SharedIds}

\* data.atomic === undefined
NoRegister == [value |-> [type |-> "", value |-> Undefined], sequenceNumber |-> -1]

\* ConnectionState
Disconnected == "Disconnected"
Connecting == "Connecting"
Connected == "Connected"

\* MessageType.Operation and some other message type
Operation == "op"
NoOp == "noop"

\* outcomes of a call
Ok == "ok"
Rejected == "rejected"
UnknownOperation == "Error: Unknown operation"
InvalidSeqAssert == "AssertionError: Invalid incoming sequence number"
AckAssert == "AssertionError"
TypeError == "TypeError"

VARIABLES
    data,                 \* this.data: Map<string, ILocalData>, in insertion order
    promiseResolveQueue,  \* this.promiseResolveQueue: IPendingRecord[]
    isLocal,              \* this.isLocal()
    state,                \* this.state: ConnectionState
    clientSeq,            \* last clientSequenceNumber returned by submitLocalMessage,
                          \* i.e. the number of messages handed to the transport
    seq,                  \* sequence number of the last sequenced message processed
    resolved,             \* clientSequenceNumbers whose resolve() ran, in order
    rejected,             \* clientSequenceNumbers whose reject() ran, in order
    observer,             \* this.data of a second replica fed the same stream
    sequenced,            \* per key, value.value of the last write processed
    last                  \* the call made in the last step and what came out of it

\* FlowDocument (examples/components/flow-document): the façade over a shared string
VARIABLES
    doc,                  \* the live segments of the merge tree, in document order
    refs,                 \* the LocalReferences handed out by addLocalRef
    nextTag,              \* the id randomId() hands to the next insertTags
    flow,                 \* the FlowDocument call made in the last step
    answer                \* what the last step's reference or position call answered
                          \* and the merge tree methods it called on the way

flowVars == <<doc, refs, nextTag, flow, answer>>

\* SharedString (packages/runtime/sequence) as its test suite drives it
VARIABLES
    sharedString,         \* the segments of client.mergeTree and its pendingSegments
    deltaMessages,        \* the operations submitted and not yet sequenced
    stringCall,           \* the SharedString call made in the last step
    stringTree,           \* the tree the last snapshot() returned
    sharedString2         \* the string loaded from that tree

stringVars == <<sharedString, deltaMessages, stringCall, stringTree, sharedString2>>

vars == <<data, promiseResolveQueue, isLocal, state, clientSeq,
          seq, resolved, rejected, observer, sequenced, last, doc, refs, nextTag, flow,
          answer, sharedString, deltaMessages, stringCall, stringTree, sharedString2>>

registerVars == <<data, promiseResolveQueue, isLocal, state, clientSeq,
                  seq, resolved, rejected, observer, sequenced, last>>

\* ------------------------------------------------------- Map<string, ILocalData>
Has(d, k) == \E i \in 1..Len(d) : d[i].key = k
IndexOf(d, k) == CHOOSE i \in 1..Len(d) : d[i].key = k
Get(d, k) == d[IndexOf(d, k)].val
Set(d, k, v) ==
    IF Has(d, k)
        THEN [d EXCEPT ![IndexOf(d, k)] = [key |-> k, val |-> v]]
        ELSE Append(d, [key |-> k, val |-> v])

\* ------------------------------------------------------------------- reads
ReadPolicyAtomic == "Atomic"
ReadPolicyVersions == "Versions"
NoPolicy == "none"

readAtomic(d, key) ==
    IF Has(d, key) THEN Get(d, key).atomic.value.value ELSE Undefined

\* undefined, or the array of value.value of the versions
NoVersions == [defined |-> FALSE, items |-> <<>>]
readVersions(d, key) ==
    IF Has(d, key)
        THEN [defined |-> TRUE,
              items |-> [i \in 1..Len(Get(d, key).versions) |->
                            Get(d, key).versions[i].value.value]]
        ELSE NoVersions

\* read(key, policy): [value, error]
readFirstVersion(d, key, policy) ==
    LET readPolicy == IF policy = NoPolicy THEN ReadPolicyAtomic ELSE policy
        versions == readVersions(d, key)
    IN  IF readPolicy = ReadPolicyAtomic
            THEN [value |-> readAtomic(d, key), error |-> Ok]
        ELSE IF versions.defined
            THEN IF Len(versions.items) > 0
                    THEN [value |-> versions.items[1], error |-> Ok]
                    ELSE [value |-> Undefined, error |-> AckAssert]
        ELSE [value |-> Undefined, error |-> Ok]

read(d, key, policy) ==
    LET readPolicy == IF policy = NoPolicy THEN ReadPolicyAtomic ELSE policy
        versions == readVersions(d, key)
    IN  IF readPolicy = ReadPolicyAtomic
            THEN [value |-> readAtomic(d, key), error |-> Ok]
        ELSE IF versions.defined
            THEN IF Len(versions.items) > 0
                    THEN [value |-> versions.items[Len(versions.items)], error |-> Ok]
                    ELSE [value |-> Undefined, error |-> AckAssert]
        ELSE [value |-> Undefined, error |-> Ok]

keys(d) == [i \in 1..Len(d) |-> d[i].key]

\* -------------------------------------------------------- processInboundWrite
\* "Atomic update if it's a new register or the write attempt was not concurrent"
atomicUpdatesAlways(atomic, refSeq) == TRUE

atomicUpdates(atomic, refSeq) ==
    atomic = NoRegister \/ refSeq >= atomic.sequenceNumber

\* "Keep removing versions where incoming refseq is greater than or equals to current."
RECURSIVE shiftVersionsStrict(_, _)
shiftVersionsStrict(versions, refSeq) ==
    IF Len(versions) > 0 /\ refSeq > versions[1].sequenceNumber
        THEN shiftVersionsStrict(Tail(versions), refSeq)
        ELSE versions

shiftVersionsAll(versions, refSeq) == <<>>

RECURSIVE shiftVersions(_, _)
shiftVersions(versions, refSeq) ==
    IF Len(versions) > 0 /\ refSeq >= versions[1].sequenceNumber
        THEN shiftVersions(Tail(versions), refSeq)
        ELSE versions

\* data.versions.push(versionUpdate)
unshiftVersion(versions, versionUpdate) == <<versionUpdate>> \o versions

keepVersions(versions, versionUpdate) == versions

pushVersion(versions, versionUpdate) == Append(versions, versionUpdate)

Event(name, key, local) == [name |-> name, key |-> key, local |-> local]

\* result: the map afterwards, the events emitted, and the error thrown (if any)
processInboundWriteVersionFirst(d, message, op, local) ==
    LET d0 == IF ~Has(d, op.key)
                  THEN Set(d, op.key, [atomic |-> NoRegister, versions |-> <<>>])
                  ELSE d
        cur == Get(d0, op.key)
        refSeq == message.referenceSequenceNumber
        updates == atomicUpdates(cur.atomic, refSeq)
        atomic1 == IF updates
                       THEN [sequenceNumber |-> message.sequenceNumber, value |-> op.value]
                       ELSE cur.atomic
        emitted1 == IF updates THEN <<Event("atomicChanged", op.key, local)>> ELSE <<>>
        versions1 == shiftVersions(cur.versions, refSeq)
        versionUpdate == [sequenceNumber |-> message.sequenceNumber, value |-> op.value]
    IN  [data |-> Set(d0, op.key, [atomic |-> atomic1,
                                   versions |-> pushVersion(versions1, versionUpdate)]),
         events |-> <<Event("versionChanged", op.key, local)>> \o emitted1,
         error |-> Ok]

processInboundWrite(d, message, op, local) ==
    LET d0 == IF ~Has(d, op.key)
                  THEN Set(d, op.key, [atomic |-> NoRegister, versions |-> <<>>])
                  ELSE d
        cur == Get(d0, op.key)
        refSeq == message.referenceSequenceNumber
        updates == atomicUpdates(cur.atomic, refSeq)
        atomic1 == IF updates
                       THEN [sequenceNumber |-> message.sequenceNumber, value |-> op.value]
                       ELSE cur.atomic
        emitted1 == IF updates THEN <<Event("atomicChanged", op.key, local)>> ELSE <<>>
        versions1 == shiftVersions(cur.versions, refSeq)
        versionUpdate == [sequenceNumber |-> message.sequenceNumber, value |-> op.value]
        assertOk == \/ Len(versions1) = 0
                    \/ versionUpdate.sequenceNumber > versions1[Len(versions1)].sequenceNumber
    IN  IF assertOk
            THEN [data |-> Set(d0, op.key, [atomic |-> atomic1,
                                            versions |-> pushVersion(versions1, versionUpdate)]),
                  events |-> Append(emitted1, Event("versionChanged", op.key, local)),
                  error |-> Ok]
            ELSE [data |-> Set(d0, op.key, [atomic |-> atomic1, versions |-> versions1]),
                  events |-> emitted1,
                  error |-> InvalidSeqAssert]

\* -------------------------------------------------------- processLocalMessage
\* result: the queue afterwards, the records resolved, and the error thrown (if any)
processLocalMessagePop(queue, message) ==
    IF Len(queue) = 0
        THEN [queue |-> queue, resolved |-> <<>>, error |-> TypeError]
        ELSE LET pending == queue[Len(queue)]
                 rest == SubSeq(queue, 1, Len(queue) - 1)
             IN  IF \/ message.clientSequenceNumber = -1
                    \/ message.clientSequenceNumber = pending.clientSequenceNumber
                     THEN [queue |-> rest,
                           resolved |-> <<pending.clientSequenceNumber>>,
                           error |-> Ok]
                     ELSE [queue |-> rest, resolved |-> <<>>, error |-> AckAssert]

processLocalMessageNoAssert(queue, message) ==
    IF Len(queue) = 0
        THEN [queue |-> queue, resolved |-> <<>>, error |-> TypeError]
        ELSE [queue |-> Tail(queue),
              resolved |-> <<Head(queue).clientSequenceNumber>>,
              error |-> Ok]

processLocalMessage(queue, message) ==
    IF Len(queue) = 0
        \* shift() of an empty array is undefined: pending.clientSequenceNumber or
        \* pending.resolve() throws
        THEN [queue |-> queue, resolved |-> <<>>, error |-> TypeError]
        ELSE LET pending == Head(queue)
             IN  IF \/ message.clientSequenceNumber = -1
                    \/ message.clientSequenceNumber = pending.clientSequenceNumber
                     THEN [queue |-> Tail(queue),
                           resolved |-> <<pending.clientSequenceNumber>>,
                           error |-> Ok]
                     ELSE [queue |-> Tail(queue), resolved |-> <<>>, error |-> AckAssert]

\* ---------------------------------------------------------------- processCore
NoResult(d, queue) ==
    [data |-> d, queue |-> queue, resolved |-> <<>>, events |-> <<>>, error |-> Ok]

processCoreSkipLocal(d, queue, message, local) ==
    IF message.type # Operation
        THEN NoResult(d, queue)
    ELSE IF message.contents.type # "write"
        THEN [NoResult(d, queue) EXCEPT !.error = UnknownOperation]
    ELSE LET w == IF local
                      THEN [data |-> d, events |-> <<>>, error |-> Ok]
                      ELSE processInboundWrite(d, message, message.contents, local)
             l == processLocalMessage(queue, message)
         IN  IF local
                 THEN [data |-> w.data, queue |-> l.queue, resolved |-> l.resolved,
                       events |-> w.events, error |-> l.error]
                 ELSE [data |-> w.data, queue |-> queue, resolved |-> <<>>,
                       events |-> w.events, error |-> Ok]

processCoreAckUnknown(d, queue, message, local) ==
    IF message.type # Operation
        THEN NoResult(d, queue)
    ELSE LET w == IF message.contents.type # "write"
                      THEN [data |-> d, events |-> <<>>, error |-> Ok]
                      ELSE processInboundWrite(d, message, message.contents, local)
             l == processLocalMessage(queue, message)
             unknown == IF message.contents.type # "write" THEN UnknownOperation ELSE Ok
         IN  IF w.error # Ok
                 THEN [data |-> w.data, queue |-> queue, resolved |-> <<>>,
                       events |-> w.events, error |-> w.error]
             ELSE IF local
                 THEN [data |-> w.data, queue |-> l.queue, resolved |-> l.resolved,
                       events |-> w.events,
                       error |-> IF unknown # Ok THEN unknown ELSE l.error]
             ELSE [data |-> w.data, queue |-> queue, resolved |-> <<>>,
                   events |-> w.events, error |-> unknown]

processCore(d, queue, message, local) ==
    IF message.type # Operation
        THEN NoResult(d, queue)
    ELSE IF message.contents.type # "write"
        THEN [NoResult(d, queue) EXCEPT !.error = UnknownOperation]
    ELSE LET w == processInboundWrite(d, message, message.contents, local)
             l == processLocalMessage(queue, message)
         IN  IF w.error # Ok
                 THEN [data |-> w.data, queue |-> queue, resolved |-> <<>>,
                       events |-> w.events, error |-> w.error]
             ELSE IF local
                 THEN [data |-> w.data, queue |-> l.queue, resolved |-> l.resolved,
                       events |-> w.events, error |-> l.error]
             ELSE [data |-> w.data, queue |-> queue, resolved |-> <<>>,
                   events |-> w.events, error |-> Ok]

\* ---------------------------------------------------------------------- write
\* the two early returns of write(): Promise.reject unless attached and Connected
writeAllowedWhenAttached(local, connectionState) == ~local

writeAllowed(local, connectionState) ==
    ~local /\ connectionState = Connected

\* SharedObject.is(value) ? {Shared, value.id} : {Plain, value}
operationValue(value) ==
    IF value.kind = "channel"
        THEN [type |-> Shared, value |-> Str(value.v)]
        ELSE [type |-> Plain, value |-> value]

\* ------------------------------------------------------------------ onConnect
\* result: the queue afterwards and the records rejected, in order
RECURSIVE onConnectPop(_)
onConnectPop(queue) ==
    IF Len(queue) > 0
        THEN LET r == onConnectPop(SubSeq(queue, 1, Len(queue) - 1))
             IN  [queue |-> r.queue,
                  rejected |-> <<queue[Len(queue)].clientSequenceNumber>> \o r.rejected]
        ELSE [queue |-> queue, rejected |-> <<>>]

RECURSIVE onConnect(_)
onConnect(queue) ==
    IF Len(queue) > 0
        THEN LET r == onConnect(Tail(queue))
             IN  [queue |-> r.queue,
                  rejected |-> <<Head(queue).clientSequenceNumber>> \o r.rejected]
        ELSE [queue |-> queue, rejected |-> <<>>]

\* onDisconnect only writes a debug line
onDisconnectDrain(queue) == onConnect(queue)

onDisconnect(queue) == [queue |-> queue, rejected |-> <<>>]

\* ------------------------------------------------------------ snapshot / load
\* runtime.getChannel(id): the live channel of a known id, a rejection otherwise
getChannel(id) ==
    IF id.kind = "string" /\ id.v \in SharedIds
        THEN [found |-> TRUE, channel |-> Channel(id.v)]
        ELSE [found |-> FALSE, channel |-> Undefined]

\* (x as ISharedObject).id: the id of a channel object, undefined on a string
idOf(value) == IF value.kind = "channel" THEN Str(value.v) ELSE Undefined

snapshotItem(item) ==
    LET innerValue == IF item.value.type = Shared
                          THEN idOf(item.value.value)
                          ELSE item.value.value
    IN  [sequenceNumber |-> item.sequenceNumber,
         value |-> [type |-> item.value.type, value |-> innerValue]]

\* JSON.stringify drops a property whose value is undefined; JSON.parse of the
\* text gives an object on which reading that property yields undefined again
stringifyItem(item) ==
    IF item.value.value = Undefined
        THEN [sequenceNumber |-> item.sequenceNumber, value |-> [type |-> item.value.type]]
        ELSE item

parseItem(json) ==
    IF "value" \in DOMAIN json.value
        THEN json
        ELSE [sequenceNumber |-> json.sequenceNumber,
              value |-> [type |-> json.value.type, value |-> Undefined]]

snapshotFileName == "header"

\* the tree: one blob "header" holding JSON.stringify(serialized)
snapshot(d) ==
    [entries |-> <<[path |-> snapshotFileName,
                    type |-> "Blob",
                    value |-> [contents |->
                                  [i \in 1..Len(d) |->
                                      [key |-> d[i].key,
                                       atomic |-> stringifyItem(snapshotItem(d[i].val.atomic)),
                                       versions |->
                                          [j \in 1..Len(d[i].val.versions) |->
                                              stringifyItem(snapshotItem(d[i].val.versions[j]))]]],
                               encoding |-> "utf-8"]]>>]

\* result: the register loaded, or the error thrown
loadItem(item) ==
    IF item.value.type = Plain
        THEN [item |-> item, error |-> Ok]
    ELSE IF item.value.type = Shared
        THEN LET channel == getChannel(item.value.value)
             IN  IF channel.found
                     THEN [item |-> [sequenceNumber |-> item.sequenceNumber,
                                     value |-> [type |-> item.value.type,
                                                value |-> channel.channel]],
                           error |-> Ok]
                     ELSE [item |-> NoRegister, error |-> Rejected]
    ELSE [item |-> NoRegister, error |-> AckAssert]

\* first error among the loaded items of one key, Ok when there is none
RECURSIVE firstError(_)
firstError(loaded) ==
    IF Len(loaded) = 0 THEN Ok
    ELSE IF Head(loaded).error # Ok THEN Head(loaded).error
    ELSE firstError(Tail(loaded))

\* the for loop of loadCore over the keys of the parsed header, from index i on
RECURSIVE loadKeys(_, _, _)
loadKeys(d, header, i) ==
    IF i > Len(header)
        THEN [data |-> d, error |-> Ok]
        ELSE LET serializedValues == header[i]
                 loadedAtomic == loadItem(parseItem(serializedValues.atomic))
                 loadedVersions == [j \in 1..Len(serializedValues.versions) |->
                                       loadItem(parseItem(serializedValues.versions[j]))]
                 err == firstError(<<loadedAtomic>> \o loadedVersions)
             IN  IF err # Ok
                     THEN [data |-> d, error |-> err]
                     ELSE loadKeys(Set(d, serializedValues.key,
                                       [atomic |-> loadedAtomic.item,
                                        versions |-> [j \in 1..Len(loadedVersions) |->
                                                         loadedVersions[j].item]]),
                                   header, i + 1)

\* loadCore into a new replica (empty this.data) from the storage holding tree
loadCore(tree) == loadKeys(<<>>, tree.entries[1].value.contents, 1)

\* -------------------------------------------------------------------- actions
NoValue == [type |-> "", value |-> Undefined]
NoOperation == [key |-> "", type |-> "", value |-> NoValue]

NoMessage ==
    [type |-> "", contents |-> NoOperation, sequenceNumber |-> 0,
     referenceSequenceNumber |-> 0, clientSequenceNumber |-> 0]

\* what the last call was (with the message and local flag of a process call) and
\* what came out of it: the error thrown or the outcome returned, the events
\* emitted, the operation handed to submitLocalMessage, the shared objects
\* register() was called on, and (for a load) the data of the replica loaded
Call(op, message, local, outcome, events, submitted, registered, loaded) ==
    [op |-> op, message |-> message, local |-> local, outcome |-> outcome,
     events |-> events, submitted |-> submitted, registered |-> registered,
     loaded |-> loaded]

\* the sequenced messages the delta connection can deliver next: a write of any
\* client, an operation of an unknown type, or a message that is no operation;
\* each is stamped with the next sequence number and with a reference sequence
\* number its sender had observed before
WriteOps == [key : Keys, type : {"write"}, value : OpValues]
OtherOps == [key : {"k1"}, type : {"clear"}, value : {NoValue}]

MessagesOf(type, ops, clientSequenceNumbers) ==
    [type : {type},
     contents : ops,
     sequenceNumber : {seq + 1},
     referenceSequenceNumber : 0..seq,
     clientSequenceNumber : clientSequenceNumbers]

\* messages of this client carry a clientSequenceNumber it has handed out, or -1
LocalMessages ==
    MessagesOf(Operation, WriteOps \cup OtherOps, {-1} \cup 1..clientSeq)
        \cup MessagesOf(NoOp, {NoOperation}, {-1})

RemoteMessages ==
    MessagesOf(Operation, WriteOps \cup OtherOps, {1})
        \cup MessagesOf(NoOp, {NoOperation}, {-1})

\* the messages whose sender had seen every sequenced message (no concurrent write)
CaughtUp(messages) == {m \in messages : m.referenceSequenceNumber = seq}

\* new SharedString(runtime, documentId): no segment, nothing pending, not yet
\* registered; text is what a plain string holds after the same edits, edits
\* the number of local edits made on it
NewSharedString ==
    [segments |-> <<>>, pendingSegments |-> <<>>, registered |-> FALSE, text |-> <<>>,
     edits |-> 0]

\* a SharedString call, the number of operations it submitted, and (from a
\* sendNACKed on, until the next edit) the text the string had at the sendNACKed
NoText == <<0>>
StringCall(op, submitted, nacked) == [op |-> op, submitted |-> submitted, nacked |-> nacked]

\* what a call answers, with the merge tree methods it called on the way
Answer(result, calls) == [result |-> result, calls |-> calls]

NoAnswer == Answer(Undefined, <<>>)

\* a FlowDocument call, its arguments, and the group operations it handed to
\* sharedString.groupOperation
FlowCall(op, start, end, groups) ==
    [op |-> op, start |-> start, end |-> end, groups |-> groups]

Init ==
    /\ data = <<>>
    /\ promiseResolveQueue = <<>>
    /\ isLocal = TRUE
    /\ state = Disconnected
    /\ clientSeq = 0
    /\ seq = 0
    /\ resolved = <<>>
    /\ rejected = <<>>
    /\ observer = <<>>
    /\ sequenced = [k \in Keys |-> Undefined]
    /\ last = Call("init", NoMessage, FALSE, Ok, <<>>, NoOperation, {}, <<>>)
    /\ doc = <<>>
    /\ refs = <<>>
    /\ nextTag = 1
    /\ flow = FlowCall("init", 0, 0, <<>>)
    /\ answer = NoAnswer
    /\ sharedString = NewSharedString
    /\ deltaMessages = <<>>
    /\ stringCall = StringCall("init", 0, NoText)
    /\ stringTree = [entries |-> <<>>]
    /\ sharedString2 = NewSharedString

\* register() / attach: the collection stops being local-only
Attach ==
    /\ isLocal
    /\ isLocal' = FALSE
    /\ last' = Call("attach", NoMessage, FALSE, Ok, <<>>, NoOperation, {}, <<>>)
    /\ UNCHANGED <<flowVars, stringVars, data, promiseResolveQueue, state, clientSeq,
                   seq, resolved, rejected, observer, sequenced>>

\* a write that is applied to the local registers when it is submitted
WriteApplied(key, value) ==
    LET op == [key |-> key, type |-> "write", value |-> operationValue(value)]
        entry == [sequenceNumber |-> seq, value |-> op.value]
    IN  IF writeAllowed(isLocal, state)
            THEN /\ clientSeq < MaxWrites
                 /\ clientSeq' = clientSeq + 1
                 /\ promiseResolveQueue' =
                        Append(promiseResolveQueue, [clientSequenceNumber |-> clientSeq + 1])
                 /\ data' = Set(data, key, [atomic |-> entry, versions |-> <<entry>>])
                 /\ last' = Call("write", NoMessage, FALSE, Ok, <<>>, op,
                                 IF value.kind = "channel" THEN {value.v} ELSE {}, <<>>)
                 /\ UNCHANGED <<flowVars, stringVars, isLocal, state, seq, resolved, rejected, observer,
                                sequenced>>
            ELSE /\ last' = Call("write", NoMessage, FALSE, Rejected, <<>>, NoOperation, {}, <<>>)
                 /\ UNCHANGED <<flowVars, stringVars, data, promiseResolveQueue, isLocal, state, clientSeq,
                                seq, resolved, rejected, observer, sequenced>>

\* write(key, value), including submit(op)
Write(key, value) ==
    LET op == [key |-> key, type |-> "write", value |-> operationValue(value)]
    IN  IF writeAllowed(isLocal, state)
            THEN /\ clientSeq < MaxWrites
                 /\ clientSeq' = clientSeq + 1
                 /\ promiseResolveQueue' =
                        Append(promiseResolveQueue, [clientSequenceNumber |-> clientSeq + 1])
                 /\ last' = Call("write", NoMessage, FALSE, Ok, <<>>, op,
                                 IF value.kind = "channel" THEN {value.v} ELSE {}, <<>>)
                 /\ UNCHANGED <<flowVars, stringVars, data, isLocal, state, seq, resolved, rejected, observer,
                                sequenced>>
            ELSE /\ last' = Call("write", NoMessage, FALSE, Rejected, <<>>, NoOperation, {}, <<>>)
                 /\ UNCHANGED <<flowVars, stringVars, data, promiseResolveQueue, isLocal, state, clientSeq,
                                seq, resolved, rejected, observer, sequenced>>

\* process(message, local) on this replica; the second replica processes the same
\* message as a remote one
Process(message, local) ==
    LET r == processCore(data, promiseResolveQueue, message, local)
        o == processCore(observer, <<>>, message, FALSE)
        isWrite == message.type = Operation /\ message.contents.type = "write"
    IN  /\ ~isLocal
        /\ local => clientSeq > 0
        /\ seq < MaxSeq
        /\ data' = r.data
        /\ promiseResolveQueue' = r.queue
        /\ resolved' = resolved \o r.resolved
        /\ observer' = o.data
        /\ seq' = message.sequenceNumber
        /\ sequenced' = IF isWrite /\ r.error # InvalidSeqAssert
                            THEN [sequenced EXCEPT ![message.contents.key] =
                                                       message.contents.value.value]
                            ELSE sequenced
        /\ last' = Call("process", message, local, r.error, r.events, NoOperation, {}, <<>>)
        /\ UNCHANGED <<flowVars, stringVars, isLocal, state, clientSeq, rejected>>

\* ConnectionState.Disconnected -> Connecting
Connect ==
    /\ state = Disconnected
    /\ state' = Connecting
    /\ last' = Call("connecting", NoMessage, FALSE, Ok, <<>>, NoOperation, {}, <<>>)
    /\ UNCHANGED <<flowVars, stringVars, data, promiseResolveQueue, isLocal, clientSeq,
                   seq, resolved, rejected, observer, sequenced>>

\* ConnectionState.Connecting -> Connected: onConnect(pending)
OnConnect ==
    LET r == onConnect(promiseResolveQueue)
    IN  /\ state = Connecting
        /\ state' = Connected
        /\ promiseResolveQueue' = r.queue
        /\ rejected' = rejected \o r.rejected
        /\ last' = Call("onConnect", NoMessage, FALSE, Ok, <<>>, NoOperation, {}, <<>>)
        /\ UNCHANGED <<flowVars, stringVars, data, isLocal, clientSeq, seq, resolved,
                       observer, sequenced>>

\* ConnectionState.* -> Disconnected: onDisconnect()
OnDisconnect ==
    LET r == onDisconnect(promiseResolveQueue)
    IN  /\ state \in {Connecting, Connected}
        /\ state' = Disconnected
        /\ promiseResolveQueue' = r.queue
        /\ rejected' = rejected \o r.rejected
        /\ last' = Call("onDisconnect", NoMessage, FALSE, Ok, <<>>, NoOperation, {}, <<>>)
        /\ UNCHANGED <<flowVars, stringVars, data, isLocal, clientSeq, seq, resolved,
                       observer, sequenced>>

\* snapshot() of this replica, then load() of the tree into a new replica
SnapshotLoad ==
    LET r == loadCore(snapshot(data))
    IN  /\ last' = Call("snapshotLoad", NoMessage, FALSE, r.error, <<>>, NoOperation, {}, r.data)
        /\ UNCHANGED <<flowVars, stringVars, data, promiseResolveQueue, isLocal, state, clientSeq,
                       seq, resolved, rejected, observer, sequenced>>

\* the snapshots a storage can hold: per key an atomic item and one or two
\* versions, each item tagged Plain, Shared (the id of a shared object) or with a
\* tag that is no RegisterValueType
InvalidType == "Invalid"

StoredValues ==
    {[type |-> Plain, value |-> Str("a")],
     [type |-> Shared, value |-> Str("s1")],
     [type |-> InvalidType, value |-> Str("a")]}

StoredRegisters ==
    {[atomic |-> [sequenceNumber |-> 1, value |-> v],
      versions |-> <<[sequenceNumber |-> 1, value |-> v]>>] : v \in StoredValues}
    \cup
    {[atomic |-> [sequenceNumber |-> 1, value |-> v],
      versions |-> <<[sequenceNumber |-> 1, value |-> v],
                     [sequenceNumber |-> 2, value |-> w]>>] :
        v \in StoredValues, w \in StoredValues}

StoredHeaders ==
    {<<>>}
    \cup {<<[key |-> "k1", atomic |-> r.atomic, versions |-> r.versions]>> :
              r \in StoredRegisters}
    \cup {<<[key |-> "k1", atomic |-> r.atomic, versions |-> r.versions],
             [key |-> "k2", atomic |-> s.atomic, versions |-> s.versions]>> :
              r \in StoredRegisters, s \in StoredRegisters}

StoredTrees ==
    {[entries |-> <<[path |-> snapshotFileName, type |-> "Blob",
                     value |-> [contents |-> header, encoding |-> "utf-8"]]>>] :
        header \in StoredHeaders}

\* sequence number of the last message a stored snapshot covers
StoredSeq == 2

\* load(): loadCore(storage) on a replica just constructed; a replica that loaded
\* is attached, one whose loadCore threw is left as loadCore left it
Load(tree) ==
    LET r == loadCore(tree)
    IN  /\ isLocal
        /\ data = <<>>
        /\ seq = 0
        /\ data' = r.data
        /\ observer' = r.data
        /\ isLocal' = (r.error # Ok)
        /\ seq' = IF r.error = Ok THEN StoredSeq ELSE seq
        /\ last' = Call("load", NoMessage, FALSE, r.error, <<>>, NoOperation, {}, r.data)
        /\ UNCHANGED <<flowVars, stringVars, promiseResolveQueue, state, clientSeq, resolved, rejected,
                       sequenced>>

\* a replica that attaches and connects once: every sequenced message, concurrent
\* writes included, and the acknowledgments of its own writes
Next ==
    \/ Attach
    \/ \E key \in Keys, value \in WriteValues : Write(key, value)
    \/ \E message \in LocalMessages : Process(message, TRUE)
    \/ \E message \in RemoteMessages : Process(message, FALSE)
    \/ Connect
    \/ OnConnect

Spec == Init /\ [][Next]_vars

\* a replica whose connection drops and comes back, in a session whose writers have
\* caught up before they write
NextSession ==
    \/ Attach
    \/ \E key \in Keys, value \in WriteValues : Write(key, value)
    \/ \E message \in CaughtUp(LocalMessages) : Process(message, TRUE)
    \/ \E message \in CaughtUp(RemoteMessages) : Process(message, FALSE)
    \/ Connect
    \/ OnConnect
    \/ OnDisconnect

SpecSession == Init /\ [][NextSession]_vars

\* the register data alone: sequenced messages and snapshots, no local write
NextSnapshot ==
    \/ Attach
    \/ \E message \in RemoteMessages : Process(message, FALSE)
    \/ SnapshotLoad

SpecSnapshot == Init /\ [][NextSnapshot]_vars

\* a replica constructed empty or loaded from a stored snapshot, then fed with
\* sequenced messages and snapshotted
NextLoad ==
    \/ Attach
    \/ \E tree \in StoredTrees : Load(tree)
    \/ \E message \in RemoteMessages : Process(message, FALSE)
    \/ SnapshotLoad

SpecLoad == Init /\ [][NextLoad]_vars

\* the delta connection hands this client the echo of its oldest pending write
\* (sent when the client had caught up); it delivers only while the client is
\* connected
Echoes ==
    IF promiseResolveQueue = <<>>
        THEN {}
        ELSE CaughtUp(MessagesOf(Operation, WriteOps,
                                 {Head(promiseResolveQueue).clientSequenceNumber}))

\* what other clients send meanwhile: one write, or a message that is no operation
OtherTraffic ==
    CaughtUp(MessagesOf(Operation,
                        {[key |-> "k2", type |-> "write", value |-> operationValue(Str("a"))]},
                        {1})
                 \cup MessagesOf(NoOp, {NoOperation}, {-1}))

Echo ==
    /\ state = Connected
    /\ \E message \in Echoes : Process(message, TRUE)

\* for a pending write, the transport delivers the echo or the connection drops
Delivery ==
    /\ promiseResolveQueue # <<>>
    /\ (Echo \/ OnDisconnect)

\* a session over a transport that acknowledges writes in the order submitted and
\* that, while a write is pending, eventually echoes it or drops the connection;
\* nothing obliges the connection to come back
NextLive ==
    \/ Attach
    \/ \E key \in Keys, value \in WriteValues : Write(key, value)
    \/ Echo
    \/ \E message \in OtherTraffic : Process(message, FALSE)
    \/ Connect
    \/ OnConnect
    \/ OnDisconnect

SpecLive == Init /\ [][NextLive]_vars /\ WF_vars(Delivery)

\* a fatal error (a failed assertion, a TypeError, an unknown operation) ends the
\* session: nothing more is handed to a replica whose last call threw
Alive == last.outcome \in {Ok, Rejected}

\* the transport sequences every operation handed to submitLocalMessage once, in
\* the order submitted, and delivers it back flagged local; before any failure the
\* operations already echoed are the ones resolved. A pending record keeps no
\* payload, so the echo carries any write
SubmittedEchoes ==
    IF Len(resolved) < clientSeq
        THEN MessagesOf(Operation, WriteOps, {Len(resolved) + 1})
        ELSE {}

\* a session whose connection drops and comes back while operations are in
\* flight; messages are delivered while the replica is connecting or connected
NextReconnect ==
    \/ Alive /\ Attach
    \/ Alive /\ \E key \in Keys, value \in WriteValues : Write(key, value)
    \/ Alive /\ state # Disconnected /\ \E message \in SubmittedEchoes : Process(message, TRUE)
    \/ Alive /\ state # Disconnected /\ \E message \in OtherTraffic : Process(message, FALSE)
    \/ Alive /\ Connect
    \/ Alive /\ OnConnect
    \/ Alive /\ OnDisconnect

SpecReconnect == Init /\ [][NextReconnect]_vars

\* --------------------------------------------------------------- FlowDocument
MaxLen == 5        \* most segments the document holds
MaxTags == 2       \* most insertTags calls
MaxRefs == 1       \* most local references handed out

\* DocSegmentKind
text == "text"
beginTags == "<t>"
endTags == "</>"
endOfText == "eot"

\* the sentinel segment of a reference to the end of the document: undefined
endOfTextSegment == Undefined

\* a text segment (one character long) and the two markers of a tag range; the
\* marker id is `${prefix}-${id}`
TextSegment == [kind |-> text, prefix |-> "", id |-> 0]
Marker(kind, prefix, id) == [kind |-> kind, prefix |-> prefix, id |-> id]

getDocSegmentKind(segment) ==
    IF segment = endOfTextSegment THEN endOfText ELSE segment.kind

\* mergeTree.getLength
length(d) == Len(d)

\* mergeTree.getOffset(segment): the position of a live segment
getOffset(d, segment) ==
    IF \E i \in 1..Len(d) : d[i] = segment
        THEN (CHOOSE i \in 1..Len(d) : d[i] = segment) - 1
        ELSE -1

getPositionCall(d, segment) ==
    IF segment = endOfTextSegment
        THEN Answer(length(d), <<>>)
        ELSE Answer(getOffset(d, segment), <<"getOffset">>)

getPosition(d, segment) == getPositionCall(d, segment).result

\* mergeTree.idToSegment[`${prefix}-${id}`]
idToSegment(prefix, id) ==
    Marker(IF prefix = "begin" THEN beginTags ELSE endTags, prefix, id)

getOppositeMarker(marker, newPrefix) == idToSegment(newPrefix, marker.id)
getStart(marker) == getOppositeMarker(marker, "begin")
getEnd(marker) == getOppositeMarker(marker, "end")

\* the operations of a group; an insert carries the segment, a remove the range
NoSegment == [kind |-> "", prefix |-> "", id |-> 0]

createRemoveRangeOp(pos1, pos2) ==
    [type |-> "remove", pos1 |-> pos1, pos2 |-> pos2, seg |-> NoSegment]

createInsertSegmentOp(pos, segment) ==
    [type |-> "insert", pos1 |-> pos, pos2 |-> pos, seg |-> segment]

GROUP == "group"

\* a LocalReference: its segment (the sentinel, or the live segment at a
\* position) and the offset in it; atLength records that addLocalRef was called
\* with position == length
LocalReference(segment, offset, atLength) ==
    [segment |-> segment, offset |-> offset, atLength |-> atLength]

Anchor(position) == [kind |-> "anchor", v |-> position]

\* mergeTree.getContainingSegment(position)
getContainingSegment(d, position) == [segment |-> Anchor(position), offset |-> 0]

getSegmentAndOffsetCall(d, position) ==
    IF position = length(d)
        THEN Answer([segment |-> endOfTextSegment, offset |-> 0], <<>>)
        ELSE Answer(getContainingSegment(d, position), <<"getContainingSegment">>)

getSegmentAndOffset(d, position) == getSegmentAndOffsetCall(d, position).result

addLocalRefInside(d, position) ==
    IF position = length(d) /\ position > 0
        THEN LocalReference(Anchor(position - 1), 1, TRUE)
    ELSE IF position = length(d)
        THEN LocalReference(endOfTextSegment, 0, TRUE)
    ELSE LET at == getSegmentAndOffset(d, position)
         IN  LocalReference(at.segment, at.offset, FALSE)

addLocalRef(d, position) ==
    IF position = length(d)
        THEN LocalReference(endOfTextSegment, 0, TRUE)
        ELSE LET at == getSegmentAndOffset(d, position)
             IN  LocalReference(at.segment, at.offset, FALSE)

\* variant: the reference is taken off the merge tree whatever its segment
removeLocalRefAlways(localRef) == <<"removeLocalReference">>

\* the merge tree methods removeLocalRef calls
removeLocalRef(localRef) ==
    IF localRef.segment # endOfTextSegment
        THEN <<"removeLocalReference">>
        ELSE <<>>

\* localRef.toPosition(mergeTree): the position of the segment plus the offset
toPosition(localRef) == localRef.segment.v + localRef.offset

localRefToPosition(d, localRef) ==
    IF localRef.segment = endOfTextSegment
        THEN length(d)
        ELSE toPosition(localRef)

\* the merge tree applying one operation to the segments ...
applyOp(d, op) ==
    IF op.type = "insert"
        THEN SubSeq(d, 1, op.pos1) \o <<op.seg>> \o SubSeq(d, op.pos1 + 1, Len(d))
    ELSE IF op.pos1 < op.pos2
        THEN SubSeq(d, 1, op.pos1) \o SubSeq(d, op.pos2 + 1, Len(d))
    ELSE d

\* ... and to a reference: one anchored in removed content slides to the segment
\* that followed it, and points to an undefined segment when there is none
slideBackward(d, op, localRef) ==
    LET at == localRef.segment.v
    IN  IF localRef.segment = endOfTextSegment
            THEN localRef
        ELSE IF op.type = "insert"
            THEN IF at >= op.pos1
                     THEN [localRef EXCEPT !.segment = Anchor(at + 1)]
                     ELSE localRef
        ELSE IF ~(op.pos1 < op.pos2) \/ at < op.pos1
            THEN localRef
        ELSE IF at >= op.pos2
            THEN [localRef EXCEPT !.segment = Anchor(at - (op.pos2 - op.pos1))]
        ELSE IF op.pos1 > 0
            THEN [localRef EXCEPT !.segment = Anchor(op.pos1 - 1), !.offset = 0]
        ELSE [localRef EXCEPT !.segment = endOfTextSegment, !.offset = 0]

slide(d, op, localRef) ==
    LET at == localRef.segment.v
    IN  IF localRef.segment = endOfTextSegment
            THEN localRef
        ELSE IF op.type = "insert"
            THEN IF at >= op.pos1
                     THEN [localRef EXCEPT !.segment = Anchor(at + 1)]
                     ELSE localRef
        ELSE IF ~(op.pos1 < op.pos2) \/ at < op.pos1
            THEN localRef
        ELSE IF at >= op.pos2
            THEN [localRef EXCEPT !.segment = Anchor(at - (op.pos2 - op.pos1))]
        ELSE IF op.pos2 < Len(d)
            THEN [localRef EXCEPT !.segment = Anchor(op.pos1), !.offset = 0]
        ELSE [localRef EXCEPT !.segment = endOfTextSegment, !.offset = 0]

\* sharedString.groupOperation: the operations of the group applied in order
RECURSIVE groupOperation(_, _, _)
groupOperation(d, rs, ops) ==
    IF Len(ops) = 0
        THEN [doc |-> d, refs |-> rs]
        ELSE groupOperation(applyOp(d, Head(ops)),
                            [i \in 1..Len(rs) |-> slide(d, Head(ops), rs[i])],
                            Tail(ops))

\* ------------------------------------------------------------------- remove
\* variant: the end tag never gets a removal of its own
includesEndTagNever(endPos, end) == FALSE

\* variant: the end tag gets a removal of its own even inside the range
includesEndTagAlways(endPos, end) == endPos >= 0

\* "Include the end tag in the removed range": if (!(endPos < end))
includesEndTag(endPos, end) == ~(endPos < end)

\* "The end tag should be preserved unless the start tag is also included in the
\* removed range": if (!(start <= startPos)), start being the variable the
\* callback itself advances
preservesEndTag(start, startPos) == ~(start <= startPos)

\* the callback of visitRange at one segment: the ops pushed so far and start
removeLeafAction(d, position, segment, end, acc) ==
    IF getDocSegmentKind(segment) = beginTags
        THEN LET endTag == getEnd(segment)
                 endPos == getPosition(d, endTag)
             IN  IF includesEndTag(endPos, end)
                     THEN [acc EXCEPT !.ops = Append(@, createRemoveRangeOp(endPos, endPos + 1))]
                     ELSE acc
    ELSE IF getDocSegmentKind(segment) = endTags
        THEN LET startTag == getStart(segment)
                 startPos == getPosition(d, startTag)
             IN  IF preservesEndTag(acc.start, startPos)
                     THEN [ops |-> Append(acc.ops, createRemoveRangeOp(acc.start, position)),
                           start |-> position + 1]
                     ELSE acc
    ELSE acc

\* mergeTree.mapRange from position on: the segments of [start, end), left to right
RECURSIVE mapRange(_, _, _, _)
mapRange(d, position, end, acc) ==
    IF position < end /\ position < length(d)
        THEN mapRange(d, position + 1, end,
                      removeLeafAction(d, position, d[position + 1], end, acc))
        ELSE acc

\* "Early exit if passed an empty or invalid range"
visitRange(d, start, end, acc) ==
    IF ~(start < end) THEN acc ELSE mapRange(d, start, end, acc)

\* ops.sort((left, right) => right.pos1 - left.pos1)
sortNothing(ops) == ops

RECURSIVE sort(_)
sort(ops) ==
    IF Len(ops) <= 1
        THEN ops
        ELSE LET sorted == sort(SubSeq(ops, 1, Len(ops) - 1))
                 op == ops[Len(ops)]
                 before == {i \in 1..Len(sorted) : sorted[i].pos1 >= op.pos1}
             IN  SubSeq(sorted, 1, Cardinality(before)) \o <<op>>
                     \o SubSeq(sorted, Cardinality(before) + 1, Len(sorted))

\* remove(start, end): the group handed to sharedString.groupOperation
remove(d, start, end) ==
    LET visited == visitRange(d, start, end, [ops |-> <<>>, start |-> start])
        ops == IF visited.start # end
                   THEN Append(visited.ops, createRemoveRangeOp(visited.start, end))
                   ELSE visited.ops
    IN  [ops |-> sort(ops), type |-> GROUP]

\* --------------------------------------------------------------- insertTags
\* variant: the begin marker is inserted first
insertTagsBeginFirst(id, start, end) ==
    [ops |-> <<createInsertSegmentOp(start, Marker(beginTags, "begin", id)),
               createInsertSegmentOp(end, Marker(endTags, "end", id))>>,
     type |-> GROUP]

insertTags(id, start, end) ==
    [ops |-> <<createInsertSegmentOp(end, Marker(endTags, "end", id)),
               createInsertSegmentOp(start, Marker(beginTags, "begin", id))>>,
     type |-> GROUP]

\* ------------------------------------------------------ FlowDocument actions
Live(d, segment) == \E i \in 1..Len(d) : d[i] = segment

\* every marker remove(start, end) visits has its opposite marker in the document
\* (the position the merge tree answers for a segment that is no longer live is
\* not part of this component)
OppositesLive(d, start, end) ==
    \A position \in start..(end - 1) :
        position < length(d) =>
            LET segment == d[position + 1]
            IN  /\ segment.kind = beginTags => Live(d, getEnd(segment))
                /\ segment.kind = endTags => Live(d, getStart(segment))

\* insertText(position, text) of one character
InsertText(position) ==
    LET r == groupOperation(doc, refs, <<createInsertSegmentOp(position, TextSegment)>>)
    IN  /\ Len(doc) < MaxLen
        /\ doc' = r.doc
        /\ refs' = r.refs
        /\ flow' = FlowCall("insertText", position, position, <<>>)
        /\ answer' = NoAnswer
        /\ UNCHANGED <<registerVars, stringVars, nextTag>>

\* insertTags(tags, start, end)
InsertTags(start, end) ==
    LET group == insertTags(nextTag, start, end)
        r == groupOperation(doc, refs, group.ops)
    IN  /\ nextTag <= MaxTags
        /\ Len(doc) + 2 <= MaxLen
        /\ doc' = r.doc
        /\ refs' = r.refs
        /\ nextTag' = nextTag + 1
        /\ flow' = FlowCall("insertTags", start, end, <<group>>)
        /\ answer' = NoAnswer
        /\ UNCHANGED <<registerVars, stringVars>>

\* remove(start, end)
Remove(start, end) ==
    LET group == remove(doc, start, end)
        r == groupOperation(doc, refs, group.ops)
    IN  /\ OppositesLive(doc, start, end)
        /\ doc' = r.doc
        /\ refs' = r.refs
        /\ flow' = FlowCall("remove", start, end, <<group>>)
        /\ answer' = NoAnswer
        /\ UNCHANGED <<registerVars, stringVars, nextTag>>

\* addLocalRef(position)
AddLocalRef(position) ==
    /\ Len(refs) < MaxRefs
    /\ refs' = Append(refs, addLocalRef(doc, position))
    /\ flow' = FlowCall("addLocalRef", position, position, <<>>)
    /\ answer' = Answer(addLocalRef(doc, position),
                        IF position = length(doc)
                            THEN <<>>
                            ELSE getSegmentAndOffsetCall(doc, position).calls
                                     \o <<"addLocalReference">>)
    /\ UNCHANGED <<registerVars, stringVars, doc, nextTag>>

\* removeLocalRef(localRef), localRef being the i-th reference handed out
RemoveLocalRef(i) ==
    /\ i \in 1..Len(refs)
    /\ refs' = SubSeq(refs, 1, i - 1) \o SubSeq(refs, i + 1, Len(refs))
    /\ flow' = FlowCall("removeLocalRef", i, i, <<>>)
    /\ answer' = Answer(refs[i], removeLocalRef(refs[i]))
    /\ UNCHANGED <<registerVars, stringVars, doc, nextTag>>

\* getSegmentAndOffset(position)
GetSegmentAndOffset(position) ==
    /\ flow' = FlowCall("getSegmentAndOffset", position, position, <<>>)
    /\ answer' = getSegmentAndOffsetCall(doc, position)
    /\ UNCHANGED <<registerVars, stringVars, doc, refs, nextTag>>

\* getPosition(segment), for the sentinel (position = length) or the marker at
\* a position of the document
GetPosition(position) ==
    LET segment == IF position = length(doc) THEN endOfTextSegment ELSE doc[position + 1]
    IN  /\ getDocSegmentKind(segment) # text
        /\ flow' = FlowCall("getPosition", position, position, <<>>)
        /\ answer' = getPositionCall(doc, segment)
        /\ UNCHANGED <<registerVars, stringVars, doc, refs, nextTag>>

Positions == 0..length(doc)

\* a document edited through the façade: text, tag ranges (nested or overlapping)
\* and removals of any range of positions
NextFlow ==
    \/ \E position \in Positions : InsertText(position)
    \/ \E start \in Positions : \E end \in start..length(doc) : InsertTags(start, end)
    \/ \E start \in Positions, end \in Positions : Remove(start, end)

SpecFlow == Init /\ [][NextFlow]_vars

\* a document with one tag range at most and local references held on it
NextRefs ==
    \/ \E position \in Positions : InsertText(position)
    \/ \E start \in Positions : \E end \in start..length(doc) :
          nextTag = 1 /\ InsertTags(start, end)
    \/ \E start \in Positions, end \in Positions : Remove(start, end)
    \/ \E position \in Positions : AddLocalRef(position)

SpecRefs == Init /\ [][NextRefs]_vars

\* the same document, its references given back, and its positions asked for
NextSentinel ==
    \/ \E position \in Positions : InsertText(position)
    \/ \E start \in Positions : \E end \in start..length(doc) :
          nextTag = 1 /\ InsertTags(start, end)
    \/ \E start \in Positions, end \in Positions : Remove(start, end)
    \/ \E position \in Positions : AddLocalRef(position)
    \/ \E i \in 1..MaxRefs : RemoveLocalRef(i)
    \/ \E position \in Positions : GetSegmentAndOffset(position)
    \/ \E position \in Positions : GetPosition(position)

SpecSentinel == Init /\ [][NextSentinel]_vars

\* --------------------------------------------------------------- SharedString
\* The sequence package itself is outside the sources at hand; its behaviour is
\* taken from the specification of the pending queue and of the segment store,
\* and the calls and expectations are those of its test suite.

\* bound: local edits made on the shared string in one run
MaxEdits == 3

\* a segment of the merge tree: seq is "unassigned" while its insert awaits the
\* acknowledgment and "settled" after; removedSeq is "none" for a segment still
\* in the text, else "unassigned" or "settled" likewise; segmentGroups are the
\* pending operations (positions in pendingSegments) that affected it, oldest
\* first
Segment(content, sequenceNumber, groups) ==
    [text |-> content, seq |-> sequenceNumber, removedSeq |-> "none", pendingProps |-> FALSE,
     segmentGroups |-> groups]

\* a removed segment takes no room in the text this client sees
cachedLength(segment) ==
    IF segment.removedSeq = "none" THEN Len(segment.text) ELSE 0

RECURSIVE getText(_)
getText(segments) ==
    IF segments = <<>> THEN <<>>
    ELSE (IF Head(segments).removedSeq = "none" THEN Head(segments).text ELSE <<>>)
             \o getText(Tail(segments))

\* the position at which segment i starts
segmentStart(segments, i) == Len(getText(SubSeq(segments, 1, i - 1)))

\* the segment holding pos inside it is split in two at pos; both halves keep
\* its sequence numbers and its pending groups
RECURSIVE ensureIntervalBoundary(_, _)
ensureIntervalBoundary(segments, pos) ==
    IF segments = <<>> \/ pos <= 0 THEN segments
    ELSE LET segment == Head(segments)
             len == cachedLength(segment)
         IN  IF pos >= len
             THEN <<segment>> \o ensureIntervalBoundary(Tail(segments), pos - len)
             ELSE <<[segment EXCEPT !.text = SubSeq(segment.text, 1, pos)],
                    [segment EXCEPT !.text = SubSeq(segment.text, pos + 1, len)]>>
                      \o Tail(segments)

\* segment goes in at pos, on a segment boundary
RECURSIVE insertAt(_, _, _)
insertAt(segments, pos, segment) ==
    IF segments = <<>> \/ pos <= 0 THEN <<segment>> \o segments
    ELSE <<Head(segments)>>
             \o insertAt(Tail(segments), pos - cachedLength(Head(segments)), segment)

\* the segments of the text lying in [start, end), once split at both ends
inRange(segments, start, end) ==
    {i \in 1..Len(segments) :
        /\ segments[i].removedSeq = "none"
        /\ start <= segmentStart(segments, i)
        /\ segmentStart(segments, i) + cachedLength(segments[i]) <= end}

\* what a plain string holds after the same insert or removal
splice(string, start, end, inserted) ==
    SubSeq(string, 1, start) \o inserted \o SubSeq(string, end + 1, Len(string))

\* a local operation joins the pending queue only once the string is registered
\* with the runtime; before that it is settled at once
groupsWith(s, segment) ==
    IF s.registered THEN Append(segment.segmentGroups, Len(s.pendingSegments) + 1)
    ELSE segment.segmentGroups

localSeq(s) == IF s.registered THEN "unassigned" ELSE "settled"

\* insertText(pos, text) / client.insertSegmentLocal(pos, segment)
insertSegmentLocal(s, pos, content) ==
    [s EXCEPT
        !.segments = insertAt(ensureIntervalBoundary(s.segments, pos), pos,
                              Segment(content, localSeq(s),
                                      groupsWith(s, Segment(content, "settled", <<>>)))),
        !.pendingSegments = IF s.registered THEN Append(@, "insert") ELSE @,
        !.text = splice(s.text, pos, pos, content)]

\* removeRange(start, end): every segment in the range is marked removed
removeRangeLocal(s, start, end) ==
    LET split == ensureIntervalBoundary(ensureIntervalBoundary(s.segments, start), end)
    IN  [s EXCEPT
            !.segments =
                [i \in 1..Len(split) |->
                    IF i \in inRange(split, start, end)
                    THEN [split[i] EXCEPT !.removedSeq = localSeq(s),
                                          !.segmentGroups = groupsWith(s, split[i])]
                    ELSE split[i]],
            !.pendingSegments = IF s.registered THEN Append(@, "remove") ELSE @,
            !.text = splice(s.text, start, end, <<>>)]

\* annotateRange(props, start, end): every segment in the range gets the properties
annotateRangeLocal(s, start, end) ==
    LET split == ensureIntervalBoundary(ensureIntervalBoundary(s.segments, start), end)
    IN  [s EXCEPT
            !.segments =
                [i \in 1..Len(split) |->
                    IF i \in inRange(split, start, end)
                    THEN [split[i] EXCEPT !.pendingProps = s.registered,
                                          !.segmentGroups = groupsWith(s, split[i])]
                    ELSE split[i]],
            !.pendingSegments = IF s.registered THEN Append(@, "annotate") ELSE @]

\* the acknowledgment of this client's oldest pending operation: its group
\* leaves pendingSegments and the segments of the group settle what it did
ackSegment(segment, type) ==
    LET later == [j \in 1..Len(segment.segmentGroups) |-> segment.segmentGroups[j] - 1]
    IN  IF segment.segmentGroups = <<>> \/ Head(segment.segmentGroups) # 1
        THEN [segment EXCEPT !.segmentGroups = later]
        ELSE [segment EXCEPT
                 !.segmentGroups = Tail(later),
                 !.seq = IF type = "insert" THEN "settled" ELSE @,
                 !.removedSeq = IF type = "remove" THEN "settled" ELSE @,
                 !.pendingProps = IF type = "annotate" THEN FALSE ELSE @]

\* variant: the segments settle but the group stays in the queue
ackPendingSegmentKeep(s, op) ==
    [s EXCEPT
        !.segments = [i \in 1..Len(s.segments) |-> ackSegment(s.segments[i], op.type)]]

ackPendingSegment(s, op) ==
    IF s.pendingSegments = <<>> THEN s
    ELSE [s EXCEPT
             !.pendingSegments = Tail(s.pendingSegments),
             !.segments = [i \in 1..Len(s.segments) |-> ackSegment(s.segments[i], op.type)]]

\* deltaConnectionFactory.processAllMessages(): every submitted operation comes
\* back sequenced, in the order of submission
RECURSIVE processAllMessages(_, _)
processAllMessages(s, queue) ==
    IF queue = <<>> THEN s
    ELSE processAllMessages(ackPendingSegment(s, Head(queue)), Tail(queue))

\* the operation that stands for a segment once its pending operations were
\* rejected: none for a segment untouched or inserted and removed meanwhile,
\* else its removal, else its insert (which carries its properties), else its
\* annotation
\* variant: a segment inserted and removed meanwhile has its removal resubmitted
resetPendingSegmentToOpRemoved(segment) ==
    IF segment.segmentGroups = <<>> THEN "nothing"
    ELSE IF segment.removedSeq = "unassigned" THEN "remove"
    ELSE IF segment.seq = "unassigned" THEN "insert"
    ELSE IF segment.pendingProps THEN "annotate"
    ELSE "nothing"

resetPendingSegmentToOp(segment) ==
    IF segment.segmentGroups = <<>> THEN "nothing"
    ELSE IF segment.seq = "unassigned" /\ segment.removedSeq = "unassigned" THEN "nothing"
    ELSE IF segment.removedSeq = "unassigned" THEN "remove"
    ELSE IF segment.seq = "unassigned" THEN "insert"
    ELSE IF segment.pendingProps THEN "annotate"
    ELSE "nothing"

\* the segments that get a corrective operation, and the order the corrective
\* operations are made in: group by group, the segments of a group in the
\* order of the text
resubmitted(segments) ==
    {i \in 1..Len(segments) : resetPendingSegmentToOp(segments[i]) # "nothing"}

newGroup(segments, i) ==
    1 + Cardinality({j \in resubmitted(segments) :
            \/ Head(segments[j].segmentGroups) < Head(segments[i].segmentGroups)
            \/ /\ Head(segments[j].segmentGroups) = Head(segments[i].segmentGroups)
               /\ j < i})

\* variant: the pending groups are resubmitted as they are, one operation each
resetPendingGroupsToOp(s) == s

\* variant: every segment of the text has its insert resubmitted
resetEverySegmentToOp(s) ==
    LET live == {i \in 1..Len(s.segments) : s.segments[i].removedSeq = "none"}
    IN  [s EXCEPT
            !.segments =
                [i \in 1..Len(s.segments) |->
                    [s.segments[i] EXCEPT
                        !.segmentGroups =
                            IF i \in live
                            THEN <<Cardinality({j \in live : j <= i})>> ELSE <<>>]],
            !.pendingSegments = [g \in 1..Cardinality(live) |-> "insert"]]

resetPendingSegmentsToOp(s) ==
    [s EXCEPT
        !.segments =
            [i \in 1..Len(s.segments) |->
                [s.segments[i] EXCEPT
                    !.segmentGroups = IF i \in resubmitted(s.segments)
                                      THEN <<newGroup(s.segments, i)>> ELSE <<>>,
                    !.pendingProps = @ /\ resetPendingSegmentToOp(s.segments[i]) = "annotate"]],
        !.pendingSegments =
            [g \in 1..Cardinality(resubmitted(s.segments)) |->
                resetPendingSegmentToOp(
                    s.segments[CHOOSE i \in resubmitted(s.segments) :
                                   newGroup(s.segments, i) = g])]]

\* whether an insert at pos falls inside a segment ("none" if not), and whether
\* that segment is itself awaiting the acknowledgment of its insert ("pending")
\* or not ("settled")
splitOf(segments, pos) ==
    LET inside == {i \in 1..Len(segments) :
                      /\ segmentStart(segments, i) < pos
                      /\ pos < segmentStart(segments, i) + cachedLength(segments[i])}
    IN  IF inside = {} THEN "none"
        ELSE IF \E i \in inside : segments[i].seq = "unassigned" THEN "pending"
        ELSE "settled"

\* what a string submits for a local operation (nothing before it is
\* registered): the operation, and for an insert what it split
submitLocal(s, queue, type, split) ==
    IF s.registered THEN Append(queue, [type |-> type, split |-> split]) ELSE queue

\* ------------------------------------------------------- snapshot of a string
\* snapshot(): the text of the live segments, adjacent text packed together and
\* cut in chunks: the older chunks under "content", the most recent in "header"
snapshotSegments(s, older, recent) ==
    LET packed == getText(s.segments)
        chunks == [header |-> SubSeq(packed, recent + 1, Len(packed)),
                   contentHeader |-> SubSeq(packed, 1, older),
                   tardis |-> SubSeq(packed, older + 1, recent)]
    IN  [entries |->
            <<[path |-> "header", type |-> "Blob",
               value |-> [contents |-> chunks.header, encoding |-> "utf-8"]],
              [path |-> "content", type |-> "Tree",
               value |-> [entries |->
                   <<[path |-> "header", type |-> "Blob",
                      value |-> [contents |-> chunks.contentHeader, encoding |-> "utf-8"]],
                     [path |-> "tardis", type |-> "Blob",
                      value |-> [contents |-> chunks.tardis, encoding |-> "utf-8"]]>>]]>>]

entryAt(entries, path) ==
    entries[CHOOSE i \in 1..Len(entries) : entries[i].path = path]

\* variant: the chunks of "tardis" are left out
chunksButTardis(tree) ==
    LET content == entryAt(tree.entries, "content").value.entries
    IN  <<entryAt(content, "header").value.contents,
          entryAt(tree.entries, "header").value.contents>>

\* the chunks of a tree in the order of the text
chunksOf(tree) ==
    LET content == entryAt(tree.entries, "content").value.entries
    IN  <<entryAt(content, "header").value.contents,
          entryAt(content, "tardis").value.contents,
          entryAt(tree.entries, "header").value.contents>>

\* load(): a fresh string holding one settled segment per chunk
loadSegments(tree) ==
    LET chunks == SelectSeq(chunksOf(tree), LAMBDA chunk : chunk # <<>>)
    IN  [NewSharedString EXCEPT
            !.segments = [i \in 1..Len(chunks) |-> Segment(chunks[i], "settled", <<>>)],
            !.text = getText([i \in 1..Len(chunks) |-> Segment(chunks[i], "settled", <<>>)])]

\* ------------------------------------------------------- SharedString actions
StringPositions == 0..Len(getText(sharedString.segments))

\* sharedString.register(): from now on local operations are submitted
Register ==
    /\ ~sharedString.registered
    /\ sharedString' = [sharedString EXCEPT !.registered = TRUE]
    /\ stringCall' = StringCall("register", 0, NoText)
    /\ UNCHANGED <<registerVars, flowVars, deltaMessages, stringTree, sharedString2>>

\* sharedString.insertText(pos, "hello"): the n-th insert puts in the text
\* <<n, n>>, long enough for a later insert to fall inside it
StringInsertText(pos) ==
    /\ sharedString.edits < MaxEdits
    /\ sharedString' =
           [insertSegmentLocal(sharedString, pos, <<sharedString.edits + 1, sharedString.edits + 1>>)
               EXCEPT !.edits = @ + 1]
    /\ deltaMessages' =
           submitLocal(sharedString, deltaMessages, "insert",
                       splitOf(sharedString.segments, pos))
    /\ stringCall' = StringCall("insertText", Len(deltaMessages') - Len(deltaMessages), NoText)
    /\ UNCHANGED <<registerVars, flowVars, stringTree, sharedString2>>

\* sharedString.removeRange(start, end)
StringRemoveRange(start, end) ==
    /\ sharedString.edits < MaxEdits
    /\ start < end
    /\ sharedString' = [removeRangeLocal(sharedString, start, end) EXCEPT !.edits = @ + 1]
    /\ deltaMessages' = submitLocal(sharedString, deltaMessages, "remove", "none")
    /\ stringCall' = StringCall("removeRange", Len(deltaMessages') - Len(deltaMessages), NoText)
    /\ UNCHANGED <<registerVars, flowVars, stringTree, sharedString2>>

\* sharedString.annotateRange({ foo: "bar" }, start, end)
StringAnnotateRange(start, end) ==
    /\ sharedString.edits < MaxEdits
    /\ start < end
    /\ sharedString' = [annotateRangeLocal(sharedString, start, end) EXCEPT !.edits = @ + 1]
    /\ deltaMessages' = submitLocal(sharedString, deltaMessages, "annotate", "none")
    /\ stringCall' = StringCall("annotateRange", Len(deltaMessages') - Len(deltaMessages), NoText)
    /\ UNCHANGED <<registerVars, flowVars, stringTree, sharedString2>>

\* await deltaConnectionFactory.processAllMessages()
ProcessAllMessages ==
    /\ sharedString.registered
    /\ sharedString' = processAllMessages(sharedString, deltaMessages)
    /\ deltaMessages' = <<>>
    /\ stringCall' = StringCall("processAllMessages", 0, stringCall.nacked)
    /\ UNCHANGED <<registerVars, flowVars, stringTree, sharedString2>>

\* sharedString.sendNACKed(): the operations on their way were rejected; the
\* corrective operations are submitted in their place
SendNACKed ==
    /\ sharedString.registered
    /\ sharedString' = resetPendingSegmentsToOp(sharedString)
    /\ deltaMessages' =
           [g \in 1..Len(sharedString'.pendingSegments) |->
               [type |-> sharedString'.pendingSegments[g], split |-> "none"]]
    /\ stringCall' = StringCall("sendNACKed", Len(deltaMessages'),
                                getText(sharedString.segments))
    /\ UNCHANGED <<registerVars, flowVars, stringTree, sharedString2>>

\* tree = sharedString.snapshot(); CreateStringAndCompare(tree)
SnapshotString(older, recent) ==
    /\ sharedString.pendingSegments = <<>>
    /\ older <= recent
    /\ stringTree' = snapshotSegments(sharedString, older, recent)
    /\ sharedString2' = loadSegments(stringTree')
    /\ stringCall' = StringCall("snapshot", 0, NoText)
    /\ UNCHANGED <<registerVars, flowVars, sharedString, deltaMessages>>

\* a string registered with the runtime, edited, acknowledged and NACKed
NextString ==
    \/ Register
    \/ \E pos \in StringPositions : StringInsertText(pos)
    \/ \E start \in StringPositions, end \in StringPositions : StringRemoveRange(start, end)
    \/ \E start \in StringPositions, end \in StringPositions :
           StringAnnotateRange(start, end)
    \/ ProcessAllMessages
    \/ SendNACKed

SpecString == Init /\ [][NextString]_vars

\* a string edited before it is registered, snapshotted and loaded
NextStringSnapshot ==
    \/ \E pos \in StringPositions : StringInsertText(pos)
    \/ \E start \in StringPositions, end \in StringPositions : StringRemoveRange(start, end)
    \/ \E older \in StringPositions, recent \in StringPositions :
           SnapshotString(older, recent)

SpecStringSnapshot == Init /\ [][NextStringSnapshot]_vars

\* --------------------------------------------------------------- properties
\* the step just taken processed a sequenced write
IsWrite(call) ==
    /\ call.op = "process"
    /\ call.message.type = Operation
    /\ call.message.contents.type = "write"

VersionsOf(d, k) == IF Has(d, k) THEN Get(d, k).versions ELSE <<>>

PendingNumbers(queue) == [i \in 1..Len(queue) |-> queue[i].clientSequenceNumber]

\* C1: processing a write (R, S) to k puts (S, value) in the atomic slot of k iff
\* k had no atomic slot or R >= the slot's sequence number; otherwise the slot is
\* left as it was, and no step other than such a winning write changes a slot.
C1_AtomicSlot ==
    [][/\ IsWrite(last') =>
            LET m == last'.message
                k == m.contents.key
                wins == \/ ~Has(data, k)
                        \/ m.referenceSequenceNumber >= Get(data, k).atomic.sequenceNumber
            IN  /\ Has(data', k)
                /\ wins => Get(data', k).atomic =
                               [sequenceNumber |-> m.sequenceNumber,
                                value |-> m.contents.value]
                /\ ~wins => Get(data', k).atomic = Get(data, k).atomic
       /\ \A k \in Keys :
            Has(data, k) =>
                /\ Has(data', k)
                /\ Get(data', k).atomic # Get(data, k).atomic =>
                       /\ IsWrite(last')
                       /\ last'.message.contents.key = k
                       /\ last'.message.referenceSequenceNumber
                              >= Get(data, k).atomic.sequenceNumber
      ]_vars

\* a concurrent write was just processed: it is the newest version of its key, and
\* the atomic slot still holds an older write
C1_Witness ==
    /\ IsWrite(last)
    /\ LET k == last.message.contents.key
       IN  /\ last.message.referenceSequenceNumber < Get(data, k).atomic.sequenceNumber
           /\ Get(data, k).atomic.sequenceNumber < last.message.sequenceNumber
           /\ Get(data, k).versions[Len(Get(data, k).versions)].sequenceNumber
                  = last.message.sequenceNumber

\* C2: processing a write (R, S) to k leaves as version list of k the prior
\* versions with sequence number > R, in their order, followed by (S, value).
C2_VersionEviction ==
    [][IsWrite(last') =>
          LET m == last'.message
              k == m.contents.key
              Survives(v) == v.sequenceNumber > m.referenceSequenceNumber
          IN  VersionsOf(data', k) =
                  Append(SelectSeq(VersionsOf(data, k), Survives),
                         [sequenceNumber |-> m.sequenceNumber, value |-> m.contents.value])
      ]_vars

\* the write at 3 had seen sequence number 1: it evicted the version written at 1
\* and kept the version written at 2
C2_Witness ==
    /\ IsWrite(last)
    /\ last.message.referenceSequenceNumber = 1
    /\ LET k == last.message.contents.key
       IN  /\ Len(Get(data, k).versions) = 2
           /\ Get(data, k).versions[1].sequenceNumber = 2
           /\ Get(data, k).versions[2].sequenceNumber = 3
           /\ Get(data, k).atomic.sequenceNumber = 3

\* C3: the version list of every key has strictly increasing sequence numbers, and
\* the "Invalid incoming sequence number" assertion never fails.
C3_VersionsIncreasing ==
    /\ last.outcome # InvalidSeqAssert
    /\ \A k \in Keys :
        Has(data, k) =>
            \A i, j \in 1..Len(Get(data, k).versions) :
                i < j => Get(data, k).versions[i].sequenceNumber
                             < Get(data, k).versions[j].sequenceNumber

\* three concurrent writes to one key are all listed
C3_Witness ==
    \E k \in Keys : Has(data, k) /\ Len(Get(data, k).versions) >= 3

C5_AckOldest ==
    /\ [][(/\ IsWrite(last')
           /\ last'.local
           /\ Len(promiseResolveQueue) > 0
           /\ \/ last'.message.clientSequenceNumber = -1
              \/ last'.message.clientSequenceNumber
                     = Head(promiseResolveQueue).clientSequenceNumber)
          => /\ promiseResolveQueue' = Tail(promiseResolveQueue)
             /\ resolved' = Append(resolved, Head(promiseResolveQueue).clientSequenceNumber)
             /\ rejected' = rejected
         ]_vars
    /\ [](\A i, j \in 1..Len(resolved) : i < j => resolved[i] < resolved[j])

\* the second of two writes was just acknowledged, after the first
C5_Witness ==
    /\ IsWrite(last)
    /\ last.local
    /\ last.outcome = Ok
    /\ last.message.clientSequenceNumber = 2
    /\ resolved = <<1, 2>>

\* C6: a local write whose clientSequenceNumber is neither -1 nor that of the
\* oldest pending record fails an assertion, and no record is resolved.
C6_AckMismatch ==
    [][(/\ IsWrite(last')
        /\ last'.local
        /\ Len(promiseResolveQueue) > 0
        /\ last'.message.clientSequenceNumber # -1
        /\ last'.message.clientSequenceNumber
               # Head(promiseResolveQueue).clientSequenceNumber)
       => /\ last'.outcome = AckAssert
          /\ resolved' = resolved
      ]_vars

\* the acknowledgment of the second write was just processed ahead of the first
C6_Witness ==
    /\ IsWrite(last)
    /\ last.local
    /\ last.message.clientSequenceNumber = 2
    /\ last.outcome = AckAssert
    /\ resolved = <<>>

\* C7: write() on a local-only collection, or in a connection state other than
\* Connected, is rejected: nothing is submitted, nothing is queued, data is as before.
C7_WriteRejected ==
    [][(last'.op = "write" /\ (isLocal \/ state # Connected)) =>
          /\ last'.outcome = Rejected
          /\ last'.submitted = NoOperation
          /\ last'.registered = {}
          /\ clientSeq' = clientSeq
          /\ promiseResolveQueue' = promiseResolveQueue
          /\ data' = data
      ]_vars

\* a collection that was connected and has data, attached but disconnected, has
\* just rejected a write
C7_Witness ==
    /\ last.op = "write"
    /\ last.outcome = Rejected
    /\ ~isLocal
    /\ state = Disconnected
    /\ clientSeq >= 1

\* C8: the replica that originated some of the writes and a replica that saw all of
\* them as remote hold the same keys, atomic slots and version lists.
C8_ReplicasAgree == data = observer

\* an acknowledged local write and a later write to the same key were processed
C8_Witness ==
    /\ Len(resolved) >= 1
    /\ \E k \in Keys : Has(data, k) /\ Len(Get(data, k).versions) >= 2

\* C9: read(key) and read(key, Atomic) give the value of the atomic slot,
\* read(key, Versions) gives the last element of readVersions(key), which is the
\* value of the last write processed for key; all give undefined for a key that was
\* never written.
C9_Read ==
    \A k \in Keys :
        IF sequenced[k] = Undefined
            THEN /\ read(data, k, NoPolicy) = [value |-> Undefined, error |-> Ok]
                 /\ read(data, k, ReadPolicyAtomic) = [value |-> Undefined, error |-> Ok]
                 /\ read(data, k, ReadPolicyVersions) = [value |-> Undefined, error |-> Ok]
                 /\ readVersions(data, k) = NoVersions
            ELSE /\ Has(data, k)
                 /\ read(data, k, NoPolicy) =
                        [value |-> Get(data, k).atomic.value.value, error |-> Ok]
                 /\ read(data, k, ReadPolicyAtomic) = read(data, k, NoPolicy)
                 /\ readVersions(data, k).defined
                 /\ Len(readVersions(data, k).items) > 0
                 /\ read(data, k, ReadPolicyVersions) =
                        [value |-> readVersions(data, k).items[Len(readVersions(data, k).items)],
                         error |-> Ok]
                 /\ read(data, k, ReadPolicyVersions).value = sequenced[k]

\* one key was never written, the other reads differently under the two policies
C9_Witness ==
    \E k1, k2 \in Keys :
        /\ sequenced[k1] = Undefined
        /\ sequenced[k2] # Undefined
        /\ read(data, k2, ReadPolicyVersions).value # read(data, k2, ReadPolicyAtomic).value
        /\ readVersions(data, k2).items[1] # read(data, k2, ReadPolicyVersions).value

HoldsType(d, type) ==
    \E i \in 1..Len(d) : \E j \in 1..Len(d[i].val.versions) :
        d[i].val.versions[j].value.type = type

\* C10: a snapshot of a collection holding plain and shared-object-valued entries,
\* loaded into a new replica, gives the same keys(), read() and readVersions().
C10_SnapshotRoundTrip ==
    (/\ last.op = "snapshotLoad"
     /\ HoldsType(data, Plain)
     /\ HoldsType(data, Shared))
    => /\ last.outcome = Ok
       /\ keys(last.loaded) = keys(data)
       /\ \A k \in Keys :
            /\ read(last.loaded, k, NoPolicy) = read(data, k, NoPolicy)
            /\ readVersions(last.loaded, k) = readVersions(data, k)

\* the items a register collection holds, atomic slots and versions alike
ItemsOf(d) ==
    UNION {{d[i].val.atomic} \cup {d[i].val.versions[j] : j \in 1..Len(d[i].val.versions)} :
               i \in 1..Len(d)}

\* the id of the shared object an item of type Shared stands for
SharedIdOf(item) == item.value.value.v

\* C11: every entry of type Shared, whether it came from a sequenced write or from
\* a loaded snapshot, is serialized by snapshot() as the id string of its shared
\* object, and load resolves that id back to the live channel.
C11_SharedSerialized ==
    \A item \in ItemsOf(data) :
        item.value.type = Shared =>
            LET json == stringifyItem(snapshotItem(item))
            IN  /\ "value" \in DOMAIN json.value
                /\ json.value.value = Str(SharedIdOf(item))
                /\ loadItem(parseItem(json)) =
                       [item |-> [sequenceNumber |-> item.sequenceNumber,
                                  value |-> [type |-> Shared,
                                             value |-> Channel(SharedIdOf(item))]],
                        error |-> Ok]

HasInvalidType(tree) ==
    \E i \in 1..Len(tree.entries[1].value.contents) :
        LET serializedValues == tree.entries[1].value.contents[i]
        IN  \/ serializedValues.atomic.value.type \notin {Plain, Shared}
            \/ \E j \in 1..Len(serializedValues.versions) :
                   serializedValues.versions[j].value.type \notin {Plain, Shared}

\* C12: loading a snapshot in which some atomic or version item carries a type tag
\* other than Plain or Shared fails, and afterwards keys() and read() show no
\* entry of that snapshot.
C12_NoPartialLoad ==
    [][\A tree \in StoredTrees :
          (Load(tree) /\ HasInvalidType(tree)) =>
              /\ last'.outcome # Ok
              /\ keys(data') = <<>>
              /\ \A k \in Keys : read(data', k, NoPolicy).value = Undefined]_vars

\* C13: processing an Operation message whose op type is not "write" throws
\* "Unknown operation", changes no register data, emits nothing, and, local or
\* not, neither removes a pending record nor invokes a continuation.
C13_UnknownOperation ==
    [][(/\ last'.op = "process"
        /\ last'.message.type = Operation
        /\ last'.message.contents.type # "write")
       => /\ last'.outcome = UnknownOperation
          /\ last'.events = <<>>
          /\ data' = data
          /\ promiseResolveQueue' = promiseResolveQueue
          /\ resolved' = resolved
          /\ rejected' = rejected]_vars

\* a local message of an unknown op type was processed while a write was pending
\* and the register held data
C13_Witness ==
    /\ last.op = "process"
    /\ last.local
    /\ last.message.type = Operation
    /\ last.message.contents.type # "write"
    /\ last.outcome = UnknownOperation
    /\ Len(promiseResolveQueue) > 0
    /\ data # <<>>

AtomicOf(d, k) == IF Has(d, k) THEN Get(d, k).atomic ELSE NoRegister

\* C14: processing a sequenced write emits "versionChanged" exactly once,
\* "atomicChanged" exactly when the write replaced the atomic slot of its key,
\* and "atomicChanged" before "versionChanged" when both are emitted.
C14_Events ==
    [][IsWrite(last') =>
          LET k == last'.message.contents.key
              atomicChanged == Event("atomicChanged", k, last'.local)
              versionChanged == Event("versionChanged", k, last'.local)
          IN  last'.events = IF AtomicOf(data', k) # AtomicOf(data, k)
                                 THEN <<atomicChanged, versionChanged>>
                                 ELSE <<versionChanged>>]_vars

\* both shapes on one key: the last write of k moved the atomic slot and emitted
\* two events, or was concurrent and emitted "versionChanged" alone
C14_Witness ==
    /\ IsWrite(last)
    /\ Len(last.events) = 1
    /\ \E k \in Keys :
          /\ last.message.contents.key = k
          /\ Len(VersionsOf(data, k)) > 1
          /\ AtomicOf(data, k).sequenceNumber < last.message.sequenceNumber

Pending(c) == \E i \in 1..Len(promiseResolveQueue) :
                  promiseResolveQueue[i].clientSequenceNumber = c

Completed(c) == \/ \E i \in 1..Len(resolved) : resolved[i] = c
                \/ \E i \in 1..Len(rejected) : rejected[i] = c

Requested(call) == {position \in call.start..(call.end - 1) : position < length(doc)}

RemoveOps(call) == call.groups[1].ops

HasOp(call, op) == \E i \in 1..Len(RemoveOps(call)) : RemoveOps(call)[i] = op

\* C16: remove(start, end) on a range holding a begin marker whose end marker lies
\* at a position >= end puts the removal [endPos, endPos + 1) in the batch, and
\* afterwards neither marker of the pair is in the document.
C16_EndTagIncluded ==
    [][flow'.op = "remove" =>
          \A position \in Requested(flow') :
              LET segment == doc[position + 1]
                  endPos == getPosition(doc, getEnd(segment))
              IN  (segment.kind = beginTags /\ endPos >= flow'.end) =>
                      /\ HasOp(flow', createRemoveRangeOp(endPos, endPos + 1))
                      /\ ~Live(doc', segment)
                      /\ ~Live(doc', getEnd(segment))]_vars

\* the last remove put the removal of an end marker beyond its range in the batch
C16_Witness ==
    /\ flow.op = "remove"
    /\ flow.start < flow.end
    /\ \E i \in 1..Len(RemoveOps(flow)) :
          /\ RemoveOps(flow)[i].pos1 >= flow.end
          /\ RemoveOps(flow)[i].pos2 = RemoveOps(flow)[i].pos1 + 1
    /\ Len(doc) > 0

\* the end markers of the requested range whose begin marker lies before start
LoneEndTags(call) ==
    {position \in Requested(call) :
        /\ doc[position + 1].kind = endTags
        /\ getPosition(doc, getStart(doc[position + 1])) < call.start}

TextCount(d) == Cardinality({i \in 1..Len(d) : d[i].kind = text})

\* C17: remove(start, end) on a range holding an end marker whose begin marker lies
\* before start leaves that end marker in the document and removes every other
\* position of the range: the other markers of the range are gone and so is its
\* text.
C17_EndTagPreserved ==
    [][(flow'.op = "remove" /\ LoneEndTags(flow') # {}) =>
          /\ \A position \in LoneEndTags(flow') : Live(doc', doc[position + 1])
          /\ \A position \in Requested(flow') \ LoneEndTags(flow') :
                doc[position + 1].kind # text => ~Live(doc', doc[position + 1])
          /\ TextCount(doc') =
                TextCount(doc) - Cardinality({position \in Requested(flow') :
                                                 doc[position + 1].kind = text})]_vars

\* C18: after any sequence of insertTags and remove calls, a begin marker is in the
\* document exactly when its end marker is.
C18_Paired ==
    \A id \in 1..MaxTags :
        Live(doc, idToSegment("begin", id)) <=> Live(doc, idToSegment("end", id))

\* C19: remove submits one group operation, whose removals are in strictly
\* descending order of start position, each ending at or before the start of the
\* removals applied before it.
C19_OneGroupDescending ==
    flow.op = "remove" =>
        /\ Len(flow.groups) = 1
        /\ flow.groups[1].type = GROUP
        /\ \A i, j \in 1..Len(RemoveOps(flow)) :
              i < j => /\ RemoveOps(flow)[i].pos1 > RemoveOps(flow)[j].pos1
                       /\ RemoveOps(flow)[j].pos2 <= RemoveOps(flow)[i].pos1

\* a remove whose batch holds three removals: an end marker beyond the range and
\* the two parts of a range split around a preserved end marker
C19_Witness ==
    /\ flow.op = "remove"
    /\ Len(RemoveOps(flow)) >= 3
    /\ \A i \in 1..Len(RemoveOps(flow)) : RemoveOps(flow)[i].pos1 < RemoveOps(flow)[i].pos2

\* C20: a reference made by addLocalRef(length) reports position == length in
\* every later state.
C20_EndOfText ==
    \A i \in 1..Len(refs) :
        refs[i].atLength => localRefToPosition(doc, refs[i]) = length(doc)

\* a reference made at the end of a document that a later remove has shortened
\* and that still holds segments
C20_Witness ==
    /\ Len(refs) > 0
    /\ refs[1].atLength
    /\ flow.op = "remove"
    /\ \E i \in 1..Len(RemoveOps(flow)) : RemoveOps(flow)[i].pos1 < RemoveOps(flow)[i].pos2
    /\ Len(doc) > 0

\* the positions the group of a remove call takes out of the document
RemovedBy(call) ==
    UNION {RemoveOps(call)[i].pos1..(RemoveOps(call)[i].pos2 - 1) :
               i \in 1..Len(RemoveOps(call))}

\* C21: after a remove, a reference that was anchored to a segment reports the
\* number of surviving positions before its anchor: its own position as shifted
\* by the removal when the anchor survives, the position just after the removed
\* content when the anchor was removed; the position is never beyond the segments
\* left, and a reference still bound to a segment is on one that is left.
C21_SlideOnRemove ==
    [][flow'.op = "remove" =>
          \A i \in 1..Len(refs) :
              refs[i].segment # endOfTextSegment =>
                  LET at == refs[i].segment.v
                      reported == localRefToPosition(doc', refs'[i])
                  IN  /\ reported =
                             Cardinality({q \in 0..(at - 1) : q \notin RemovedBy(flow')})
                      /\ reported \in 0..length(doc')
                      /\ refs'[i].segment # endOfTextSegment => reported < length(doc')
                      /\ (at \notin RemovedBy(flow')) =>
                             /\ refs'[i].segment # endOfTextSegment
                             /\ doc'[reported + 1] = doc[at + 1]]_vars

\* a reference made inside the document lost its segment and every segment after
\* it to a remove, and segments before it are left
C21_Witness ==
    /\ Len(refs) > 0
    /\ ~refs[1].atLength
    /\ refs[1].segment = endOfTextSegment
    /\ flow.op = "remove"
    /\ Len(doc) > 0

\* the segments some pending operation affected
Affected(s) == {i \in 1..Len(s.segments) : s.segments[i].segmentGroups # <<>>}

\* C22: after local edits and the processing of all sequenced messages the
\* pending-segment queue is empty, and the text is the inserted content in its
\* final position order (what a plain string holds after the same edits)
C22_Acknowledged ==
    stringCall.op = "processAllMessages" =>
        /\ sharedString.pendingSegments = <<>>
        /\ Affected(sharedString) = {}
        /\ getText(sharedString.segments) = sharedString.text

C22_Witness ==
    /\ stringCall.op = "processAllMessages"
    /\ stringCall.nacked = NoText
    /\ Len(sharedString.segments) >= 3
    /\ \A i \in 1..Len(sharedString.segments) : sharedString.segments[i].seq = "settled"
    /\ \E i \in 1..Len(sharedString.segments) : sharedString.segments[i].removedSeq = "settled"
    /\ getText(sharedString.segments) # <<>>

\* the pending operations are inserts only, or one removeRange, or one annotateRange
OneKind(s) ==
    \/ \A g \in 1..Len(s.pendingSegments) : s.pendingSegments[g] = "insert"
    \/ Len(s.pendingSegments) = 1

\* all but the first of the pending inserts split a segment (of the given kinds)
AllButFirstSplit(s, queue, kinds) ==
    /\ Len(queue) = Len(s.pendingSegments)
    /\ Len(queue) > 0
    /\ \A g \in 1..Len(queue) : queue[g].type = "insert"
    /\ queue[1].split = "none"
    /\ \A g \in 2..Len(queue) : queue[g].split \in kinds

InsertedAllRemoved(s) ==
    /\ \E i \in 1..Len(s.segments) : s.segments[i].seq = "unassigned"
    /\ \A i \in 1..Len(s.segments) :
           s.segments[i].seq = "unassigned" => s.segments[i].removedSeq # "none"

\* C24 as stated: when every segment of the unacknowledged inserts was removed
\* locally before the NACK, sendNACKed leaves the pending queue empty
C24_InsertedAndRemoved ==
    [][(stringCall'.op = "sendNACKed" /\ InsertedAllRemoved(sharedString)) =>
           /\ sharedString'.pendingSegments = <<>>
           /\ deltaMessages' = <<>>]_vars

\* C24 amended: when every segment the unacknowledged operations affected was
\* put in by an unacknowledged insert and removed locally before the NACK,
\* sendNACKed leaves the pending queue empty
C24_OnlyInsertedAndRemoved ==
    [][(/\ stringCall'.op = "sendNACKed"
        /\ InsertedAllRemoved(sharedString)
        /\ \A i \in Affected(sharedString) : sharedString.segments[i].seq = "unassigned") =>
           /\ sharedString'.pendingSegments = <<>>
           /\ deltaMessages' = <<>>]_vars

C24_Witness ==
    /\ stringCall.op = "sendNACKed"
    /\ stringCall.submitted = 0
    /\ sharedString.pendingSegments = <<>>
    /\ Len(sharedString.segments) >= 3
    /\ \A i \in 1..Len(sharedString.segments) :
           /\ sharedString.segments[i].seq = "unassigned"
           /\ sharedString.segments[i].removedSeq = "unassigned"

\* C25: sendNACKed on a string whose local operations are all acknowledged
\* resubmits nothing: the pending queue is empty before and after, and the
\* string is as it was
C25_NothingToResubmit ==
    [][(stringCall'.op = "sendNACKed" /\ sharedString.pendingSegments = <<>>) =>
           /\ sharedString' = sharedString
           /\ deltaMessages' = <<>>
           /\ stringCall'.submitted = 0]_vars

C25_Witness ==
    /\ stringCall.op = "sendNACKed"
    /\ stringCall.submitted = 0
    /\ sharedString.pendingSegments = <<>>
    /\ Len(sharedString.segments) >= 3
    /\ \A i \in 1..Len(sharedString.segments) : sharedString.segments[i].seq = "settled"
    /\ \E i \in 1..Len(sharedString.segments) : sharedString.segments[i].removedSeq = "settled"

\* the paths of the entries of a tree, in order
Paths(entries) == [i \in 1..Len(entries) |-> entries[i].path]

C27_InsertTags ==
    [][(flow'.op = "insertTags" /\ flow'.start <= flow'.end) =>
           /\ Len(flow'.groups) = 1
           /\ flow'.groups[1].type = GROUP
           /\ Len(flow'.groups[1].ops) = 2
           /\ LET ops == flow'.groups[1].ops
                  endMarker == CHOOSE op \in {ops[i] : i \in 1..Len(ops)} :
                                   op.seg.prefix = "end"
                  beginMarker == CHOOSE op \in {ops[i] : i \in 1..Len(ops)} :
                                     op.seg.prefix = "begin"
              IN  /\ \E i \in 1..Len(ops) : ops[i].type = "insert" /\ ops[i].seg.prefix = "end"
                  /\ \E i \in 1..Len(ops) :
                         ops[i].type = "insert" /\ ops[i].seg.prefix = "begin"
                  /\ endMarker.seg.kind = endTags
                  /\ beginMarker.seg.kind = beginTags
                  /\ endMarker.seg.id = beginMarker.seg.id
                  /\ ~Live(doc, endMarker.seg) /\ ~Live(doc, beginMarker.seg)
                  /\ Live(doc', endMarker.seg) /\ Live(doc', beginMarker.seg)
                  /\ Len(doc') = Len(doc) + 2
                  /\ getPosition(doc', beginMarker.seg) = flow'.start
                  /\ getPosition(doc', beginMarker.seg) < getPosition(doc', endMarker.seg)
                  /\ getEnd(beginMarker.seg) = endMarker.seg
                  /\ getStart(endMarker.seg) = beginMarker.seg]_vars

C27_Witness ==
    /\ flow.op = "insertTags"
    /\ flow.start = flow.end
    /\ flow.start > 0
    /\ doc[flow.start + 1].kind = beginTags
    /\ doc[flow.start + 2].kind = endTags
    /\ doc[flow.start + 1].id = doc[flow.start + 2].id

\* C28: the sub-range removals one remove call puts in its group operation are
\* pairwise non-overlapping intervals
C28_NonOverlapping ==
    [][flow'.op = "remove" =>
           \A i \in 1..Len(RemoveOps(flow')), j \in 1..Len(RemoveOps(flow')) :
               i # j =>
                   \/ RemoveOps(flow')[i].pos2 <= RemoveOps(flow')[j].pos1
                   \/ RemoveOps(flow')[j].pos2 <= RemoveOps(flow')[i].pos1]_vars

C28_Witness ==
    /\ flow.op = "remove"
    /\ Len(RemoveOps(flow)) >= 3
    /\ \A i \in 1..Len(RemoveOps(flow)) : RemoveOps(flow)[i].pos1 < RemoveOps(flow)[i].pos2

\* C30: every removal remove(start, end) places in its group operation is a
\* non-empty, well-formed range (pos1 < pos2), whatever start and end are
C30_WellFormed ==
    [][flow'.op = "remove" =>
           \A i \in 1..Len(RemoveOps(flow')) :
               RemoveOps(flow')[i].pos1 < RemoveOps(flow')[i].pos2]_vars

\* C29: the sentinel is never put in the segment store: addLocalRef at length
\* registers no reference in the merge tree, removeLocalRef of a reference on
\* the sentinel leaves the merge tree alone, and getSegmentAndOffset(length) and
\* getPosition(sentinel) answer (sentinel, 0) and length without asking the
\* merge tree
C29_SentinelOutside ==
    [][/\ \A i \in 1..Len(doc') : doc'[i] # endOfTextSegment
       /\ (flow'.op = "addLocalRef" /\ flow'.start = length(doc)) =>
              /\ answer'.calls = <<>>
              /\ answer'.result.segment = endOfTextSegment
              /\ doc' = doc
       /\ (flow'.op = "removeLocalRef" /\ refs[flow'.start].segment = endOfTextSegment) =>
              /\ answer'.calls = <<>>
              /\ doc' = doc
       /\ (flow'.op = "getSegmentAndOffset" /\ flow'.start = length(doc)) =>
              /\ answer'.calls = <<>>
              /\ answer'.result = [segment |-> endOfTextSegment, offset |-> 0]
              /\ doc' = doc /\ refs' = refs
       /\ (flow'.op = "getPosition" /\ flow'.start = length(doc)) =>
              /\ answer'.calls = <<>>
              /\ answer'.result = length(doc)
              /\ doc' = doc /\ refs' = refs]_vars

C29_Witness ==
    /\ flow.op = "removeLocalRef"
    /\ answer.result.segment = endOfTextSegment
    /\ answer.result.atLength
    /\ answer.calls = <<>>
    /\ length(doc) > 0


\* ------------------------------------------------------------- C31
InVersions(entry, versions) == \E i \in 1..Len(versions) : versions[i] = entry

\* C31: in every reachable state, for every key, the entry of the atomic slot
\* (same sequence number and same value) is an element of the key's version list
C31_AtomicInVersions ==
    \A i \in 1..Len(data) : InVersions(data[i].val.atomic, data[i].val.versions)

\* a concurrent write has left the atomic slot behind the last version
C31_Witness ==
    \E i \in 1..Len(data) :
        /\ Len(data[i].val.versions) >= 2
        /\ data[i].val.atomic = data[i].val.versions[1]
        /\ data[i].val.atomic.value # data[i].val.versions[2].value
        /\ IsWrite(last)


\* ------------------------------------------------------------- C32
\* C32: after every step, every key that keys() returns has a defined atomic slot
\* and a non-empty version list, so that read(key, Versions) never fails its
\* "Value should be undefined or non empty" assertion; and every key that keys()
\* returned before the step is still returned after it
C32_KeysStay ==
    [][/\ \A i \in 1..Len(keys(data')) :
              LET key == keys(data')[i]
              IN  /\ Get(data', key).atomic # NoRegister
                  /\ Get(data', key).versions # <<>>
                  /\ read(data', key, ReadPolicyVersions).error = Ok
                  /\ read(data', key, ReadPolicyVersions).value # Undefined
       /\ \A i \in 1..Len(keys(data)) :
              \E j \in 1..Len(keys(data')) : keys(data')[j] = keys(data)[i]]_vars

\* two keys are present, and the key of the last write processed holds the single
\* version that read(key, Versions) returns
C32_Witness ==
    /\ Len(keys(data)) = 2
    /\ IsWrite(last)
    /\ last.message.sequenceNumber = MaxSeq
    /\ Len(Get(data, last.message.contents.key).versions) = 1
    /\ read(data, last.message.contents.key, ReadPolicyVersions).value
           = last.message.contents.value.value


\* ------------------------------------------------------------- C33
\* what keys(), read() under either policy and readVersions() return for every key
Reads(d) ==
    [keys |-> keys(d),
     atomic |-> [k \in Keys |-> read(d, k, NoPolicy)],
     versions |-> [k \in Keys |-> read(d, k, ReadPolicyVersions)],
     all |-> [k \in Keys |-> readVersions(d, k)]]

\* C33: a successful write(key, value) appends one record to the pending queue,
\* hands one write operation to the outbound stream and changes nothing else:
\* keys(), read() and readVersions() answer after the call what they answered
\* before it; their answers change only in a step that processes a sequenced write
C33_WriteFrame ==
    [][/\ (last'.op = "write" /\ last'.outcome = Ok) =>
              /\ Len(promiseResolveQueue') = Len(promiseResolveQueue) + 1
              /\ SubSeq(promiseResolveQueue', 1, Len(promiseResolveQueue))
                     = promiseResolveQueue
              /\ last'.submitted \in WriteOps
              /\ Reads(data') = Reads(data)
              /\ UNCHANGED <<data, isLocal, state, seq, resolved, rejected>>
       /\ Reads(data') # Reads(data) => IsWrite(last')]_vars

\* a write has just been accepted behind another pending write while the registers
\* hold a value for its key
C33_Witness ==
    /\ last.op = "write"
    /\ last.outcome = Ok
    /\ Len(promiseResolveQueue) = 2
    /\ Has(data, last.submitted.key)
    /\ read(data, last.submitted.key, NoPolicy).value # last.submitted.value.value


\* ------------------------------------------------------------- C34
\* the value handed to write() whose operation carries opValue: write() sends a
\* plain value as it is and a shared object as its id
Written(opValue) ==
    IF opValue.type = Shared THEN Channel(opValue.value.v) ELSE opValue.value

\* C34: whenever the processing of a local sequenced write resolves the outcome of
\* a write(key, value), the write is already applied: the last element of
\* readVersions(key) is the value that was written
C34_AppliedWhenResolved ==
    [][(IsWrite(last') /\ last'.local /\ resolved' # resolved) =>
           LET op == last'.message.contents
               versions == readVersions(data', op.key)
           IN  /\ versions.defined
               /\ versions.items # <<>>
               /\ versions.items[Len(versions.items)] = Written(op.value)]_vars


=============================================================================
